---- MODULE Spec2Model ----
(***************************************************************************)
(* BC Hydro usage client (src/api.py): the browser-driven login / fetch    *)
(* state machine of BCHydroApi and the HTML-to-record parser.              *)
(*                                                                         *)
(* Text is a sequence of one-character strings.  A float is an integer     *)
(* number of hundredths (10.5 is 1050); a date is [year, month, day].      *)
(* The parsed HTML is [alerts, table]: the elements carrying a class       *)
(* attribute with their text, and the consumptionTable with its list of tr *)
(* rows, each the list of the texts of its td cells.                       *)
(***************************************************************************)
EXTENDS Integers, Sequences, FiniteSets, TLC

VARIABLES
    driver,         \* self._driver: None, or the id of the launched browser
    authenticated,  \* self._authenticated
    usage,          \* self._usage: None or a BCHydroDailyUsage
    latest_point,   \* self._latest_point: None or a BCHydroDailyElectricity
    running,        \* ids of the browser processes that are alive
    launches,       \* number of browsers launched so far (the last id)
    scope,          \* "unentered" | "entered" | "exited" (async with)
    portal,         \* the consumptionTableSection the portal serves now
    last,           \* the most recent call on the client and its outcome
    loop            \* the event loop the coroutines run on: what its thread
                    \* is executing

vars == <<driver, authenticated, usage, latest_point, running, launches,
          scope, portal, last, loop>>

\* Python's None where an object may stand
None == [none |-> TRUE]

\* self._driver = None
NoDriver == 0

----------------------------------------------------------------------------
(* Python str / float / datetime helpers *)

Digits == <<"0", "1", "2", "3", "4", "5", "6", "7", "8", "9">>

IsDigit(c) == \E i \in 1..10 : Digits[i] = c

DigitVal(c) == (CHOOSE i \in 1..10 : Digits[i] = c) - 1

IsSpace(c) == c = " "

\* index of the first non-space character at or after i, Len(s)+1 if none
SkipSpaces(s, i) ==
    IF \E j \in i..Len(s) : ~IsSpace(s[j])
    THEN CHOOSE j \in i..Len(s) :
            /\ ~IsSpace(s[j])
            /\ \A k \in i..(j - 1) : IsSpace(s[k])
    ELSE Len(s) + 1

\* str.strip(), get_text(strip=True)
Strip(s) ==
    LET lo == SkipSpaces(s, 1)
    IN  IF lo > Len(s) THEN <<>>
        ELSE LET hi == CHOOSE j \in lo..Len(s) :
                          /\ ~IsSpace(s[j])
                          /\ \A k \in (j + 1)..Len(s) : IsSpace(s[k])
             IN  SubSeq(s, lo, hi)

\* str.replace(c, "")
RemoveChar(s, c) == SelectSeq(s, LAMBDA x : x # c)

\* " ".join(parts)
RECURSIVE JoinSpace(_)
JoinSpace(parts) ==
    IF parts = <<>> THEN <<>>
    ELSE IF Len(parts) = 1 THEN parts[1]
    ELSE parts[1] \o <<" ">> \o JoinSpace(Tail(parts))

\* t occurs in s as a contiguous substring
Contains(s, t) ==
    \E i \in 1..(Len(s) - Len(t) + 1) : SubSeq(s, i, i + Len(t) - 1) = t

RECURSIVE DigitsVal(_)
DigitsVal(s) ==
    IF s = <<>> THEN 0
    ELSE 10 * DigitsVal(SubSeq(s, 1, Len(s) - 1)) + DigitVal(s[Len(s)])

AllDigits(s) == \A i \in 1..Len(s) : IsDigit(s[i])

\* the value a conversion raises instead of returning
ValueError == [error |-> "ValueError"]

\* float(s) for decimal literals [sign] digits [. digits]: [float |-> v] with
\* v in hundredths (fraction digits after the second are dropped), or
\* ValueError.  FloatValue: the integer part ip and fraction part fp.
FloatValue(ip, fp, neg) ==
    IF ~AllDigits(ip) \/ ~AllDigits(fp) \/ Len(ip) + Len(fp) = 0
    THEN ValueError
    ELSE [float |-> (IF neg THEN -1 ELSE 1)
                      * (100 * DigitsVal(ip)
                            + DigitsVal(SubSeq(fp \o <<"0", "0">>, 1, 2)))]

\* the unsigned literal u, split at its decimal point (at index dot, if any)
FloatSplit(u, neg, dots) ==
    IF Cardinality(dots) > 1 THEN ValueError
    ELSE IF dots = {} THEN FloatValue(u, <<>>, neg)
    ELSE FloatValue(SubSeq(u, 1, (CHOOSE i \in dots : TRUE) - 1),
                    SubSeq(u, (CHOOSE i \in dots : TRUE) + 1, Len(u)), neg)

FloatUnsigned(u, neg) ==
    FloatSplit(u, neg, {i \in 1..Len(u) : u[i] = "."})

\* the literal t, already stripped
FloatSigned(t) ==
    IF t # <<>> /\ t[1] \in {"-", "+"}
    THEN FloatUnsigned(Tail(t), t[1] = "-")
    ELSE FloatUnsigned(t, FALSE)

PyFloat(s) == FloatSigned(Strip(s))

MonthNames ==
    << <<"j", "a", "n">>, <<"f", "e", "b">>, <<"m", "a", "r">>,
       <<"a", "p", "r">>, <<"m", "a", "y">>, <<"j", "u", "n">>,
       <<"j", "u", "l">>, <<"a", "u", "g">>, <<"s", "e", "p">>,
       <<"o", "c", "t">>, <<"n", "o", "v">>, <<"d", "e", "c">> >>

Lower(c) ==
    CASE c = "A" -> "a" [] c = "D" -> "d" [] c = "F" -> "f" [] c = "J" -> "j"
      [] c = "M" -> "m" [] c = "N" -> "n" [] c = "O" -> "o" [] c = "S" -> "s"
      [] OTHER -> c

LowerAll(s) == [i \in 1..Len(s) |-> Lower(s[i])]

IsLeap(y) == (y % 4 = 0 /\ y % 100 # 0) \/ y % 400 = 0

DaysInMonth(y, m) ==
    IF m = 2 THEN (IF IsLeap(y) THEN 29 ELSE 28)
    ELSE IF m \in {4, 6, 9, 11} THEN 30 ELSE 31

\* %b: the month of the abbreviation mon (matched ignoring case), 0 if none
MonthOf(mon) ==
    IF \E m \in 1..12 : MonthNames[m] = LowerAll(mon)
    THEN CHOOSE m \in 1..12 : MonthNames[m] = LowerAll(mon)
    ELSE 0

\* datetime(y, m, d)
MakeDate(y, m, d) ==
    IF y < 1 \/ d < 1 \/ d > DaysInMonth(y, m) THEN ValueError
    ELSE [year |-> y, month |-> m, day |-> d]

\* ", %Y": the comma at c0, spaces up to y0, four digits, nothing after them
StrptimeYear(s, m, d, c0, y0) ==
    IF \/ y0 <= c0 + 1
       \/ y0 + 3 # Len(s)
       \/ ~AllDigits(SubSeq(s, y0, y0 + 3))
    THEN ValueError
    ELSE MakeDate(DigitsVal(SubSeq(s, y0, y0 + 3)), m, d)

\* "%d,": a day of dlen digits at d0, then the comma
StrptimeDay(s, m, d0, dlen) ==
    IF d0 + dlen > Len(s) \/ s[d0 + dlen] # "," THEN ValueError
    ELSE StrptimeYear(s, m, DigitsVal(SubSeq(s, d0, d0 + dlen - 1)),
                      d0 + dlen, SkipSpaces(s, d0 + dlen + 1))

\* "%b ": month m read, the day starts at d0 after at least one space
StrptimeMonth(s, m, d0) ==
    IF m = 0 \/ d0 <= 4 \/ d0 > Len(s) THEN ValueError
    ELSE IF ~IsDigit(s[d0]) THEN ValueError
    ELSE StrptimeDay(s, m, d0,
                     IF d0 + 1 <= Len(s) /\ IsDigit(s[d0 + 1]) THEN 2 ELSE 1)

\* datetime.strptime(s, "%b %d, %Y"): month abbreviation, spaces, a day of
\* one or two digits, a comma, spaces, a four-digit year, nothing after it.
PyStrptime(s) ==
    IF Len(s) < 3 THEN ValueError
    ELSE StrptimeMonth(s, MonthOf(SubSeq(s, 1, 3)), SkipSpaces(s, 4))

----------------------------------------------------------------------------
(* Exceptions (src/exceptions.py).  An exception is its type, the literal  *)
(* prefixes of its message outermost first, the interpolated text, and the *)
(* type of the exception it was raised from.                               *)

NoExc == [type |-> "None", lits |-> <<>>, val |-> <<>>, cause |-> "None"]

Raise(type, lit, text) ==
    [type |-> type, lits |-> <<lit>>, val |-> text, cause |-> "None"]

\* an exception of the driver, the runtime or a library: no message modelled
Foreign(type) == [type |-> type, lits |-> <<>>, val |-> <<>>, cause |-> "None"]

\* raise type(f"{lit}{str(err)}") from err
RaiseFrom(type, lit, err) ==
    [type |-> type, lits |-> <<lit>> \o err.lits, val |-> err.val,
     cause |-> err.type]

BCHydroErrorTypes ==
    {"BCHydroError", "BCHydroAuthException", "BCHydroParamException",
     "BCHydroInvalidHtmlException", "BCHydroInvalidXmlException",
     "BCHydroAlertDialogException", "BCHydroInvalidDataException"}

\* isinstance(exc, BCHydroError)
IsBCHydroError(exc) == exc.type \in BCHydroErrorTypes

----------------------------------------------------------------------------
(* The HTML parser: _check_for_errors and _parse_consumption_data          *)

\* soup.find(id="consumptionTable"): None, or the table with its tr rows
NoTable == [present |-> FALSE, rows |-> <<>>]

Table(rows) == [present |-> TRUE, rows |-> rows]

\* soup.select(".alert.error:not(.hidden)")
SelectAlerts(soup) ==
    SelectSeq(soup.alerts,
              LAMBDA e : /\ "alert" \in e.classes
                         /\ "error" \in e.classes
                         /\ "hidden" \notin e.classes)

\* _check_for_errors: the exception it raises, NoExc if it returns
CheckForErrors(soup) ==
    LET alerts == SelectAlerts(soup)
        texts  == [i \in 1..Len(alerts) |-> Strip(alerts[i].text)]
    IN  IF alerts # <<>>
        THEN Raise("BCHydroAlertDialogException", "Alert dialog detected: ",
                   JoinSpace(texts))
        ELSE NoExc

Skipped == [skipped |-> TRUE]

\* the row's record with its date stored as the billing period's end too
RowRecordBillingEnd(consumption, cost, date) ==
    IF consumption = ValueError \/ cost = ValueError THEN Skipped
    ELSE IF date = ValueError THEN Skipped
    ELSE [consumption |-> consumption.float,
          cost        |-> cost.float,
          interval    |-> [start |-> date, end |-> date,
                           billing_period_end |-> date],
          is_estimate |-> FALSE]

\* lines 161-183 of the row loop, the three conversions done
RowRecord(consumption, cost, date) ==
    IF consumption = ValueError \/ cost = ValueError THEN Skipped
    ELSE IF date = ValueError THEN Skipped
    ELSE [consumption |-> consumption.float,
          cost        |-> cost.float,
          interval    |-> [start |-> date, end |-> date,
                           billing_period_end |-> None],
          is_estimate |-> FALSE]

\* the row loop asking for three cells only
ParseRowThreeCells(cells) ==
    IF Len(cells) < 3 THEN Skipped
    ELSE RowRecord(PyFloat(Strip(cells[2])),
                   PyFloat(Strip(RemoveChar(Strip(cells[3]), "$"))),
                   PyStrptime(Strip(cells[1])))

\* one iteration of the row loop: the record appended, or Skipped (continue)
ParseRow(cells) ==
    IF Len(cells) < 4 THEN Skipped
    ELSE RowRecord(PyFloat(Strip(cells[2])),
                   PyFloat(Strip(RemoveChar(Strip(cells[3]), "$"))),
                   PyStrptime(Strip(cells[1])))

\* electricity after one iteration: append, or continue
AddRow(electricity, rec) ==
    IF rec = Skipped THEN electricity ELSE Append(electricity, rec)

\* the loop over the rows, electricity being the list built so far
RECURSIVE ParseLoop(_, _)
ParseLoop(rows, electricity) ==
    IF rows = <<>> THEN electricity
    ELSE ParseLoop(Tail(rows), AddRow(electricity, ParseRow(rows[1])))

\* electricity = []; for row in rows: ...
ParseRows(rows) == ParseLoop(rows, <<>>)

\* table.find_all("tr")[1:]
BodyRows(table) == IF table.rows = <<>> THEN <<>> ELSE Tail(table.rows)

\* lines 185-201 of _parse_consumption_data: [exc, value]
BuildUsage(account, electricity) ==
    IF electricity = <<>>
    THEN [exc   |-> Raise("BCHydroInvalidHtmlException",
                          "No valid consumption data found", <<>>),
          value |-> None]
    ELSE [exc   |-> NoExc,
          value |->
            [account     |-> account,
             interval    |->
                [start |-> electricity[1].interval.start,
                 end   |-> electricity[Len(electricity)].interval.end,
                 billing_period_end |-> None],
             \* step1_rate 0.0954, step2_rate 0.1427 in 1/10000,
             \* threshold 1332.0 in 1/100
             rates       |-> [step1_rate |-> 954, step2_rate |-> 1427,
                              threshold |-> 133200],
             electricity |-> electricity]]

\* _parse_consumption_data: [exc, value]
ParseConsumptionData(account, soup) ==
    IF ~soup.table.present
    THEN [exc   |-> Raise("BCHydroInvalidHtmlException",
                          "Consumption table not found", <<>>),
          value |-> None]
    ELSE BuildUsage(account, ParseRows(BodyRows(soup.table)))

----------------------------------------------------------------------------
(* What one call asks of its surroundings: whether Chrome can be launched, *)
(* what the login page does, what the portal navigation does.              *)

NoBanner == [present |-> FALSE, text |-> <<>>]

\* ".alert.error:not(.hidden)" elements the login page can show after submit
Banners == {[present |-> TRUE,
             text |-> <<"B", "a", "d", " ", "l", "o", "g", "i", "n">>]}

Envs ==
    [chrome  : BOOLEAN,                        \* webdriver.Chrome(...) starts
     login   : {"ok", "timeout"},              \* the username field appears
     banner  : Banners \cup {NoBanner},        \* error banner after submit
     chooser : BOOLEAN,                        \* accountListDiv appears
     nav     : {"ok", "timeout"}]              \* the table section appears

DefaultEnv ==
    [chrome |-> TRUE, login |-> "ok", banner |-> NoBanner, chooser |-> FALSE,
     nav |-> "ok"]

----------------------------------------------------------------------------
(* BCHydroApi.  An operation takes the object (self and the browser        *)
(* processes) as a record st and returns [st, exc]: the object after the   *)
(* call and the exception that left it (NoExc when it returned).           *)
(* st.trace lists the WebDriver commands issued, each with the browser it   *)
(* was sent to; st.suppressed lists the exceptions caught and dropped.     *)

Issue(st, cmd) ==
    [st EXCEPT !.trace = Append(@, [cmd |-> cmd, on |-> st.driver])]

\* a WebDriver command cannot be served: there is no driver object, or its
\* browser process has been quit
DriverFault(st) ==
    IF st.driver = NoDriver THEN Foreign("AttributeError")
    ELSE IF st.driver \notin st.running THEN Foreign("WebDriverException")
    ELSE NoExc

\* _ensure_browser without its "if not self._driver" guard
EnsureBrowserAlways(st, env) ==
    IF env.chrome
    THEN [st  |-> [st EXCEPT !.driver   = st.launches + 1,
                             !.running  = @ \cup {st.launches + 1},
                             !.launches = @ + 1,
                             !.trace    = Append(@, [cmd |-> "launch",
                                             on |-> st.launches + 1])],
          exc |-> NoExc]
    ELSE [st |-> st, exc |-> Foreign("WebDriverException")]

\* _ensure_browser
EnsureBrowser(st, env) ==
    IF st.driver = NoDriver
    THEN IF env.chrome
         THEN [st  |-> [st EXCEPT !.driver   = st.launches + 1,
                                  !.running  = @ \cup {st.launches + 1},
                                  !.launches = @ + 1,
                                  !.trace    = Append(@, [cmd |-> "launch",
                                                  on |-> st.launches + 1])],
               exc |-> NoExc]
         ELSE [st |-> st, exc |-> Foreign("WebDriverException")]
    ELSE [st |-> st, exc |-> NoExc]

\* the exception raised inside the inner try of the banner check (89-93)
BannerCheck(env) ==
    IF env.banner.present
    THEN Raise("BCHydroAuthException", "Login failed: ", env.banner.text)
    ELSE Foreign("TimeoutException")

\* lines 97-106: the account chooser, then the flag is set
SelectAccount(st, env) ==
    [st  |-> [(IF env.chooser THEN Issue(st, "click_account")
               ELSE [st EXCEPT !.suppressed =
                        Append(@, Foreign("TimeoutException"))])
              EXCEPT !.authenticated = TRUE],
     exc |-> NoExc]

\* lines 88-95: whatever the banner check raises is caught and dropped
\* (except Exception: pass)
CheckBanner(st, env) ==
    SelectAccount([st EXCEPT !.suppressed = Append(@, BannerCheck(env))], env)

\* the body of the try in _authenticate (75-106)
LoginSequence(st, env) ==
    IF DriverFault(st) # NoExc
    THEN [st |-> Issue(st, "get_login"), exc |-> DriverFault(st)]
    ELSE IF env.login = "timeout"
    THEN [st |-> Issue(st, "get_login"), exc |-> Foreign("TimeoutException")]
    ELSE CheckBanner(Issue(Issue(Issue(st, "get_login"),
                                 "fill_credentials"), "submit"), env)

\* try / except of _authenticate: r is the outcome of the try body
AuthenticateResult(r) ==
    IF r.exc = NoExc THEN r
    ELSE [st  |-> [r.st EXCEPT !.authenticated = FALSE],
          exc |-> RaiseFrom("BCHydroAuthException",
                            "Authentication failed: ", r.exc)]

\* _authenticate after "await self._ensure_browser()" came to b
AuthenticateLogin(b, env) ==
    IF b.exc # NoExc THEN b
    ELSE AuthenticateResult(LoginSequence(b.st, env))

\* _authenticate
Authenticate(st, env) ==
    IF st.authenticated THEN [st |-> st, exc |-> NoExc]
    ELSE AuthenticateLogin(EnsureBrowser(st, env), env)

\* lines 132-134 with the cache cleared when the parse fails
StoreUsageClears(st, res) ==
    IF res.exc # NoExc
    THEN [st |-> [st EXCEPT !.usage = None, !.latest_point = None],
          exc |-> res.exc]
    ELSE [st  |-> [st EXCEPT
                     !.usage = res.value,
                     !.latest_point =
                        res.value.electricity[Len(res.value.electricity)]],
          exc |-> NoExc]

\* lines 132-134 caching the first record as the latest point
StoreUsageFirst(st, res) ==
    IF res.exc # NoExc THEN [st |-> st, exc |-> res.exc]
    ELSE [st  |-> [st EXCEPT !.usage = res.value,
                             !.latest_point = res.value.electricity[1]],
          exc |-> NoExc]

\* lines 132-134 setting the latest point only while none is cached
StoreUsageKeepsPoint(st, res) ==
    IF res.exc # NoExc THEN [st |-> st, exc |-> res.exc]
    ELSE [st  |-> [st EXCEPT
                     !.usage = res.value,
                     !.latest_point =
                        IF st.latest_point = None
                        THEN res.value.electricity[Len(res.value.electricity)]
                        ELSE @],
          exc |-> NoExc]

\* lines 132-134: the parse raises, or its value is stored
StoreUsage(st, res) ==
    IF res.exc # NoExc THEN [st |-> st, exc |-> res.exc]
    ELSE [st  |-> [st EXCEPT
                     !.usage = res.value,
                     !.latest_point =
                        IF res.value # None /\ res.value.electricity # <<>>
                        THEN res.value.electricity[Len(res.value.electricity)]
                        ELSE @],
          exc |-> NoExc]

\* lines 128-134 with the parse done before the alert check
ParseStageParseFirst(st, chk, soup) ==
    IF StoreUsage(st, ParseConsumptionData(st.account, soup)).exc # NoExc
    THEN StoreUsage(st, ParseConsumptionData(st.account, soup))
    ELSE IF chk # NoExc
    THEN [st  |-> StoreUsage(st, ParseConsumptionData(st.account, soup)).st,
          exc |-> chk]
    ELSE StoreUsage(st, ParseConsumptionData(st.account, soup))

\* lines 128-134: the alert check, then the parse
ParseStage(st, chk, soup) ==
    IF chk # NoExc THEN [st |-> st, exc |-> chk]
    ELSE StoreUsage(st, ParseConsumptionData(st.account, soup))

\* the body of the try in refresh (118-134); soup is the parsed outerHTML of
\* the consumptionTableSection
FetchAndParse(st, env, soup) ==
    IF DriverFault(st) # NoExc
    THEN [st |-> Issue(st, "find_viewpay"), exc |-> DriverFault(st)]
    ELSE IF env.nav = "timeout"
    THEN [st  |-> Issue(Issue(st, "find_viewpay"), "click_viewpay"),
          exc |-> Foreign("TimeoutException")]
    ELSE ParseStage(Issue(Issue(Issue(st, "find_viewpay"), "click_viewpay"),
                          "read_section"),
                    CheckForErrors(soup), soup)

\* the except of refresh without "self._authenticated = False"
RefreshResultKeepsFlag(r) ==
    IF r.exc = NoExc THEN r
    ELSE [st  |-> r.st,
          exc |-> RaiseFrom("BCHydroAuthException",
                            "Failed to refresh data: ", r.exc)]

\* try / except of refresh: r is the outcome of the try body
RefreshResult(r) ==
    IF r.exc = NoExc THEN r
    ELSE [st  |-> [r.st EXCEPT !.authenticated = FALSE],
          exc |-> RaiseFrom("BCHydroAuthException",
                            "Failed to refresh data: ", r.exc)]

\* refresh after lines 114-115 came to a
RefreshFetch(a, env, soup) ==
    IF a.exc # NoExc THEN a
    ELSE RefreshResult(FetchAndParse(a.st, env, soup))

\* refresh
Refresh(st, env, soup) ==
    RefreshFetch(IF ~st.authenticated THEN Authenticate(st, env)
                 ELSE [st |-> st, exc |-> NoExc],
                 env, soup)

\* the accessors refreshing on every call, cached point or not
LazyRefreshAlways(st, env, soup) == Refresh(st, env, soup)

\* "if not self._latest_point: await self.refresh()" of the accessors
LazyRefresh(st, env, soup) ==
    IF st.latest_point = None THEN Refresh(st, env, soup)
    ELSE [st |-> st, exc |-> NoExc]

\* the return statement of get_latest_usage, r the outcome of the refresh
UsageOf(r) ==
    [st  |-> r.st, exc |-> r.exc,
     ret |-> IF r.exc # NoExc THEN None
             ELSE IF r.st.latest_point # None
             THEN [float |-> r.st.latest_point.consumption]
             ELSE [float |-> 0]]

\* get_latest_usage: [st, exc, ret]
GetLatestUsage(st, env, soup) == UsageOf(LazyRefresh(st, env, soup))

\* the return statement of get_latest_cost
CostOf(r) ==
    [st  |-> r.st, exc |-> r.exc,
     ret |-> IF r.exc # NoExc THEN None
             ELSE IF r.st.latest_point # None
             THEN [float |-> r.st.latest_point.cost]
             ELSE [float |-> 0]]

\* get_latest_cost: [st, exc, ret]
GetLatestCost(st, env, soup) == CostOf(LazyRefresh(st, env, soup))

\* the return statement of get_latest_interval
IntervalOf(r) ==
    [st  |-> r.st, exc |-> r.exc,
     ret |-> IF r.exc # NoExc THEN None
             ELSE IF r.st.latest_point # None
             THEN [start |-> r.st.latest_point.interval.start,
                   end   |-> r.st.latest_point.interval.end,
                   billing_period_end |->
                       r.st.latest_point.interval.billing_period_end]
             ELSE [start |-> None, end |-> None,
                   billing_period_end |-> None]]

\* get_latest_interval: [st, exc, ret]
GetLatestInterval(st, env, soup) == IntervalOf(LazyRefresh(st, env, soup))

\* __aexit__ quitting only the browser of a logged-in session
AExitRunningIfAuthenticated(st) ==
    IF st.driver # NoDriver /\ st.authenticated
    THEN st.running \ {st.driver} ELSE st.running

\* __aexit__: the browser processes left running
AExitRunning(st) ==
    IF st.driver # NoDriver THEN st.running \ {st.driver} ELSE st.running

----------------------------------------------------------------------------
(* BCHydroCoordinator (src/coordinator.py): the periodic poller.  Its      *)
(* operations return [st, exc, ret]: the client after the update, the      *)
(* exception that left the update, and the snapshot it returned.           *)

\* line 36: the third value of the dict reads self.api.latest_interval, an
\* attribute BCHydroApi neither defines nor assigns; c is the outcome of
\* get_latest_cost()
UpdateInterval(latest_usage, c) ==
    IF c.exc # NoExc THEN [st |-> c.st, exc |-> c.exc, ret |-> None]
    ELSE [st |-> c.st, exc |-> Foreign("AttributeError"), ret |-> None]

\* line 35: u is the outcome of get_latest_usage()
UpdateCost(u, env, soup) ==
    IF u.exc # NoExc THEN [st |-> u.st, exc |-> u.exc, ret |-> None]
    ELSE UpdateInterval(u.ret, GetLatestCost(u.st, env, soup))

\* lines 33-34: r is the outcome of refresh()
UpdateFetch(r, env, soup) ==
    IF r.exc # NoExc THEN [st |-> r.st, exc |-> r.exc, ret |-> None]
    ELSE UpdateCost(GetLatestUsage(r.st, env, soup), env, soup)

\* the handler catching the client's own errors only (except BCHydroError)
UpdateResultTypedOnly(r) ==
    IF r.exc = NoExc \/ ~IsBCHydroError(r.exc) THEN r
    ELSE [st  |-> r.st,
          exc |-> RaiseFrom("UpdateFailed", "Error fetching data: ", r.exc),
          ret |-> None]

\* try / except of _async_update_data (31, 38-39): r the outcome of the body
UpdateResult(r) ==
    IF r.exc = NoExc THEN r
    ELSE [st  |-> r.st,
          exc |-> RaiseFrom("UpdateFailed", "Error fetching data: ", r.exc),
          ret |-> None]

\* _async_update_data
AsyncUpdateData(st, env, soup) ==
    UpdateResult(UpdateFetch(Refresh(st, env, soup), env, soup))

----------------------------------------------------------------------------
(* BCHydroConfigFlow (src/config_flow.py): the setup step.  A dict is the  *)
(* set of its <<key, value>> pairs.                                        *)

NoInput == [none |-> TRUE]

\* the user_input the step is called with: None when the form is first
\* shown, the submitted credentials after
UserInputs == {NoInput, [username |-> "user", password |-> "secret"]}

\* line 29: BCHydroApi(username, password), a client of its own with no
\* browser yet
NewClient ==
    [driver |-> NoDriver, authenticated |-> FALSE, usage |-> None,
     latest_point |-> None, account |-> None, running |-> {}, launches |-> 0,
     trace |-> <<>>, suppressed |-> <<>>]

\* lines 47-51: async_show_form
ShowForm(errors) == [type |-> "form", step_id |-> "user", errors |-> errors]

\* lines 33-36: async_create_entry
CreateEntry(user_input) ==
    [type |-> "create_entry", title |-> "BC Hydro",
     data |-> {<<"username", user_input.username>>,
               <<"password", user_input.password>>}]

\* the step catching the client's own errors only (except BCHydroError)
StepUserResultTypedOnly(user_input, r) ==
    IF r.exc = NoExc
    THEN [st |-> r.st, exc |-> NoExc, ret |-> CreateEntry(user_input)]
    ELSE IF ~IsBCHydroError(r.exc)
    THEN [st |-> r.st, exc |-> r.exc, ret |-> None]
    ELSE [st  |-> [r.st EXCEPT !.suppressed = Append(@, r.exc)],
          exc |-> NoExc,
          ret |-> ShowForm({<<"base", "invalid_auth">>})]

\* try / except of async_step_user (27-38) and the form after it: r is the
\* outcome of refresh()
StepUserResult(user_input, r) ==
    IF r.exc = NoExc
    THEN [st |-> r.st, exc |-> NoExc, ret |-> CreateEntry(user_input)]
    ELSE [st  |-> [r.st EXCEPT !.suppressed = Append(@, r.exc)],
          exc |-> NoExc,
          ret |-> ShowForm({<<"base", "invalid_auth">>})]

\* async_step_user
AsyncStepUser(user_input, env, soup) ==
    IF user_input = NoInput
    THEN [st |-> NewClient, exc |-> NoExc, ret |-> ShowForm({})]
    ELSE StepUserResult(user_input, Refresh(NewClient, env, soup))

----------------------------------------------------------------------------
(* The pages the portal serves                                             *)

MaxRows == 2     \* data rows of the consumption table
MaxAlerts == 1   \* class-carrying elements in the section

DateJan1 == <<"J", "a", "n", " ", "1", ",", " ", "2", "0", "2", "4">>
DateJan2 == <<"J", "a", "n", " ", "2", ",", " ", "2", "0", "2", "4">>
DateIso  == <<"2", "0", "2", "4", "-", "0", "1", "-", "0", "1">>
Kwh1     == <<"1", "0", ".", "5">>
Kwh2     == <<"1", "2", ".", "0">>
KwhNA    == <<"n", "/", "a">>
Cost1    == <<"$", "1", ".", "0", "0">>
Cost2    == <<"$", "1", ".", "2", "0">>
CostPad  == <<" ", "$", " ", "1", ".", "2", "0", " ">>
CostDash == <<"$", "-", "-">>
Blank    == <<>>

\* the header row holds th cells only: find_all("td") finds none
HeaderRow == <<>>

Good1   == <<DateJan1, Kwh1, Cost1, Blank>>
Good2   == <<DateJan2, Kwh2, Cost2, Blank>>
Three1  == <<DateJan1, Kwh1, Cost1>>
Three2  == <<DateJan2, Kwh2, Cost2>>
BadDate == <<DateIso, Kwh1, Cost1, Blank>>
BadKwh  == <<DateJan1, KwhNA, Cost1, Blank>>
BadCost == <<DateJan1, Kwh1, CostDash, Blank>>
Padded  == <<DateJan2, Kwh2, CostPad, Blank, Blank>>

\* rows of the tables the parser is applied to
ParserRows ==
    {Good1, Good2, Three1, Three2, BadDate, BadKwh, BadCost, Padded}

VisibleAlert == [classes |-> {"alert", "error"},
                 text |-> <<" ", "O", "u", "t", "a", "g", "e", " ">>]
HiddenAlert  == [classes |-> {"alert", "error", "hidden"},
                 text |-> <<"O", "l", "d">>]
InfoAlert    == [classes |-> {"alert"}, text |-> <<"N", "o", "t", "e">>]
OtherAlert   == [classes |-> {"alert", "error", "top"},
                 text |-> <<"R", "e", "t", "r", "y">>]

ParserAlerts == {VisibleAlert, HiddenAlert, InfoAlert, OtherAlert}

SeqsUpTo(S, n) == UNION {[1..k -> S] : k \in 0..n}

Tables(rows) ==
    {NoTable, Table(<<>>)}
        \cup {Table(<<HeaderRow>> \o b) : b \in SeqsUpTo(rows, MaxRows)}

\* the sections the parser is applied to
Fragments == [alerts : SeqsUpTo(ParserAlerts, MaxAlerts),
              table  : Tables(ParserRows)]

\* the sections the portal serves to the client
PortalTables ==
    {NoTable,
     Table(<<HeaderRow>>),
     Table(<<HeaderRow, Good1>>),
     Table(<<HeaderRow, Good1, Good2>>),
     Table(<<HeaderRow, Good2, Good1>>),   \* the newest day listed first
     Table(<<HeaderRow, Three1, Three2>>),
     Table(<<HeaderRow, BadDate, Good2>>)}

PortalAlerts == {<<>>, <<VisibleAlert>>, <<HiddenAlert, OtherAlert>>}

----------------------------------------------------------------------------
(* The state machine                                                       *)

\* the object an operation works on
Self ==
    [driver |-> driver, authenticated |-> authenticated, usage |-> usage,
     latest_point |-> latest_point,
     account |-> None,   \* self._account: set in __init__, never assigned
     running |-> running, launches |-> launches,
     trace |-> <<>>, suppressed |-> <<>>]

Call(op, arg, env, r, ret) ==
    [op |-> op, arg |-> arg, env |-> env, exc |-> r.exc, ret |-> ret,
     trace |-> r.st.trace, suppressed |-> r.st.suppressed]

NoCall ==
    [op |-> "none", arg |-> "None", env |-> DefaultEnv, exc |-> NoExc,
     ret |-> None, trace |-> <<>>, suppressed |-> <<>>]

\* the answers a call that starts in st comes to ask for (refreshes: the call
\* runs refresh); what it never asks for is left at its default
EnvsFor(st, refreshes) ==
    {e \in Envs :
       LET launch == refreshes /\ ~st.authenticated /\ st.driver = NoDriver
           login  == /\ refreshes /\ ~st.authenticated
                     /\ \/ st.driver \in st.running
                        \/ launch /\ e.chrome
           fetch  == /\ refreshes
                     /\ IF st.authenticated THEN st.driver \in st.running
                        ELSE login /\ e.login = "ok"
       IN  /\ ~launch => e.chrome
           /\ ~login => e.login = "ok"
           /\ ~(login /\ e.login = "ok") => e.banner = NoBanner /\ ~e.chooser
           /\ ~fetch => e.nav = "ok"}

\* the event loop with nothing running: thread is the coroutine its one
\* thread is inside ("idle" between callbacks), polls the polls the pending
\* WebDriverWait has made so far, other the steps the other task has taken
IdleLoop == [thread |-> "idle", polls |-> 0, other |-> 0]

Commit(st) ==
    /\ driver'        = st.driver
    /\ authenticated' = st.authenticated
    /\ usage'         = st.usage
    /\ latest_point'  = st.latest_point
    /\ running'       = st.running
    /\ launches'      = st.launches

Init ==
    /\ driver = NoDriver
    /\ authenticated = FALSE
    /\ usage = None
    /\ latest_point = None
    /\ running = {}
    /\ launches = 0
    /\ scope = "unentered"
    /\ portal = [alerts |-> <<>>, table |-> NoTable]
    /\ last = NoCall
    /\ loop = IdleLoop

DoRefresh ==
    \E env \in EnvsFor(Self, TRUE) :
        \E r \in {Refresh(Self, env, portal)} :
            /\ Commit(r.st)
            /\ last' = Call("refresh", "None", env, r, None)
            /\ UNCHANGED <<scope, portal, loop>>

DoGetLatestUsage ==
    \E env \in EnvsFor(Self, latest_point = None) :
        \E r \in {GetLatestUsage(Self, env, portal)} :
            /\ Commit(r.st)
            /\ last' = Call("get_latest_usage", "None", env, r, r.ret)
            /\ UNCHANGED <<scope, portal, loop>>

DoGetLatestCost ==
    \E env \in EnvsFor(Self, latest_point = None) :
        \E r \in {GetLatestCost(Self, env, portal)} :
            /\ Commit(r.st)
            /\ last' = Call("get_latest_cost", "None", env, r, r.ret)
            /\ UNCHANGED <<scope, portal, loop>>

DoGetLatestInterval ==
    \E env \in EnvsFor(Self, latest_point = None) :
        \E r \in {GetLatestInterval(Self, env, portal)} :
            /\ Commit(r.st)
            /\ last' = Call("get_latest_interval", "None", env, r, r.ret)
            /\ UNCHANGED <<scope, portal, loop>>

\* one update of the poller on its client
DoAsyncUpdateData ==
    \E env \in EnvsFor(Self, TRUE) :
        \E r \in {AsyncUpdateData(Self, env, portal)} :
            /\ Commit(r.st)
            /\ last' = Call("_async_update_data", "None", env, r, r.ret)
            /\ UNCHANGED <<scope, portal, loop>>

\* the setup step; its client and the browser it launches are its own
DoAsyncStepUser ==
    \E user_input \in UserInputs :
        \E env \in EnvsFor(NewClient, user_input # NoInput) :
            \E r \in {AsyncStepUser(user_input, env, portal)} :
                /\ last' = Call("async_step_user",
                                IF user_input = NoInput THEN "None"
                                ELSE "user_input",
                                env, r, r.ret)
                /\ UNCHANGED <<driver, authenticated, usage, latest_point,
                               running, launches, scope, portal, loop>>

\* __aenter__
AEnter ==
    /\ scope = "unentered"
    /\ scope' = "entered"
    /\ last' = Call("__aenter__", "None", DefaultEnv,
                    [st |-> Self, exc |-> NoExc], None)
    /\ UNCHANGED <<driver, authenticated, usage, latest_point, running,
                   launches, portal, loop>>

\* __aexit__(exc_type, ...): the block ended normally, or with the exception
\* of the call before
AExit ==
    /\ scope = "entered"
    /\ \E exc_type \in {"None", last.exc.type} :
          last' = Call("__aexit__", exc_type, DefaultEnv,
                       [st |-> Self, exc |-> NoExc], None)
    /\ running' = AExitRunning(Self)
    /\ scope' = "exited"
    /\ UNCHANGED <<driver, authenticated, usage, latest_point, launches,
                   portal, loop>>

\* the portal's page changes between calls
PortalSetTable ==
    /\ \E t \in PortalTables : portal' = [portal EXCEPT !.table = t]
    /\ last' = NoCall
    /\ UNCHANGED <<driver, authenticated, usage, latest_point, running,
                   launches, scope, loop>>

PortalSetAlerts ==
    /\ \E a \in PortalAlerts : portal' = [portal EXCEPT !.alerts = a]
    /\ last' = NoCall
    /\ UNCHANGED <<driver, authenticated, usage, latest_point, running,
                   launches, scope, loop>>

Next ==
    \/ DoRefresh
    \/ DoGetLatestUsage
    \/ DoGetLatestCost
    \/ DoGetLatestInterval
    \/ DoAsyncUpdateData
    \/ DoAsyncStepUser
    \/ AEnter
    \/ AExit
    \/ PortalSetTable
    \/ PortalSetAlerts

Spec == Init /\ [][Next]_vars

----------------------------------------------------------------------------
(* The parser alone, applied to every section within the bounds            *)

InitParser ==
    /\ driver = NoDriver
    /\ authenticated = FALSE
    /\ usage = None
    /\ latest_point = None
    /\ running = {}
    /\ launches = 0
    /\ scope = "unentered"
    /\ portal \in Fragments
    /\ last = NoCall
    /\ loop = IdleLoop

DoCheckForErrors ==
    /\ last' = [NoCall EXCEPT !.op = "_check_for_errors",
                              !.exc = CheckForErrors(portal)]
    /\ UNCHANGED <<driver, authenticated, usage, latest_point, running,
                   launches, scope, portal, loop>>

DoParseConsumptionData ==
    /\ \E r \in {ParseConsumptionData(Self.account, portal)} :
          last' = [NoCall EXCEPT !.op = "_parse_consumption_data",
                                 !.exc = r.exc, !.ret = r.value]
    /\ UNCHANGED <<driver, authenticated, usage, latest_point, running,
                   launches, scope, portal, loop>>

NextParser ==
    \/ DoCheckForErrors
    \/ DoParseConsumptionData

SpecParser == InitParser /\ [][NextParser]_vars

----------------------------------------------------------------------------
(* refresh() on the event loop.  It is an "async def", but every browser   *)
(* operation in it and in _authenticate is a synchronous WebDriver call    *)
(* (driver.get, find_element, click, WebDriverWait(...).until, which       *)
(* sleeps on the calling thread between polls); the only awaits are of the *)
(* client's own coroutines, which never wait on a future.  So the event    *)
(* loop's thread enters refresh() and stays in it until it returns or      *)
(* raises; the loop runs another task's callback only when idle.           *)

MaxPolls == 2        \* polls of a wait before the portal answers
MaxOtherSteps == 2   \* steps of the other task that are told apart

\* the event loop resumes the task that awaits refresh(): its thread is
\* inside refresh() from here on
LoopRunRefresh ==
    /\ loop.thread = "idle"
    /\ loop' = [loop EXCEPT !.thread = "refresh", !.polls = 0]
    /\ UNCHANGED <<driver, authenticated, usage, latest_point, running,
                   launches, scope, portal, last>>

\* WebDriverWait.until: the portal has not answered yet, the thread sleeps
\* for the poll interval and looks again
WaitPoll ==
    /\ loop.thread = "refresh"
    /\ loop.polls < MaxPolls
    /\ loop' = [loop EXCEPT !.polls = @ + 1]
    /\ UNCHANGED <<driver, authenticated, usage, latest_point, running,
                   launches, scope, portal, last>>

\* the portal answers or the waits run out: refresh() returns or raises and
\* the thread goes back to the event loop
LoopReturnRefresh ==
    /\ loop.thread = "refresh"
    /\ \E env \in EnvsFor(Self, TRUE) :
          \E r \in {Refresh(Self, env, portal)} :
              /\ Commit(r.st)
              /\ last' = Call("refresh", "None", env, r, None)
    /\ loop' = [loop EXCEPT !.thread = "idle", !.polls = 0]
    /\ UNCHANGED <<scope, portal>>

\* the event loop runs one callback of another task
OtherTaskStep ==
    /\ loop.thread = "idle"
    /\ loop.other < MaxOtherSteps
    /\ loop' = [loop EXCEPT !.other = @ + 1]
    /\ UNCHANGED <<driver, authenticated, usage, latest_point, running,
                   launches, scope, portal, last>>

NextLoop ==
    \/ LoopRunRefresh
    \/ WaitPoll
    \/ LoopReturnRefresh
    \/ OtherTaskStep
    \/ PortalSetTable

SpecLoop == Init /\ [][NextLoop]_vars

----------------------------------------------------------------------------
(* Properties                                                              *)

\* the calls that run refresh(): refresh itself, or an accessor that found
\* nothing cached
RanRefresh(call, before) ==
    \/ call.op = "refresh"
    \/ /\ call.op \in {"get_latest_usage", "get_latest_cost",
                       "get_latest_interval"}
       /\ before = None

Issued(call, cmd) == \E i \in 1..Len(call.trace) : call.trace[i].cmd = cmd

\* C1: whenever a refresh() fails, at whatever stage, the cached DailyUsage
\* and the cached latest point are what they were before the call and the
\* authenticated flag is false after it.
C1_FailedRefreshKeepsCache ==
    [][(RanRefresh(last', latest_point) /\ last'.exc # NoExc)
          => /\ usage' = usage
             /\ latest_point' = latest_point
             /\ ~authenticated']_vars

\* a refresh failed in the table parse while a snapshot was cached
C1_Witness ==
    /\ last.op = "refresh"
    /\ last.exc.cause = "BCHydroInvalidHtmlException"
    /\ usage # None
    /\ latest_point # None

\* C2: a visible error banner after the login form is submitted makes the
\* refresh() fail with an AuthError carrying the banner text, with the
\* authenticated flag unset, no consumption fetch attempted and the cached
\* DailyUsage unchanged.
C2_BannerFailsLogin ==
    [][(RanRefresh(last', latest_point) /\ last'.env.banner.present)
          => /\ last'.exc.type = "BCHydroAuthException"
             /\ Contains(last'.exc.val, last'.env.banner.text)
             /\ ~authenticated'
             /\ ~Issued(last', "find_viewpay")
             /\ usage' = usage]_vars

\* the section was fetched and handed to the parser
ReadSection(call) == Issued(call, "read_section")

\* an element of the section is a visible error alert
VisibleAlerts(soup) ==
    {i \in 1..Len(soup.alerts) :
        /\ {"alert", "error"} \subseteq soup.alerts[i].classes
        /\ "hidden" \notin soup.alerts[i].classes}

\* C3: a failure of any stage of refresh() reaches the caller as the typed
\* error of that stage: InvalidHtmlError for a missing table or no parseable
\* row, AlertDialogError for a visible alert, AuthError only for a session
\* failure; no error is suppressed on the way.
C3_StageErrorsPropagate ==
    (last.op = "refresh") =>
        /\ (ReadSection(last) /\ VisibleAlerts(portal) # {})
              => last.exc.type = "BCHydroAlertDialogException"
        /\ (/\ ReadSection(last) /\ VisibleAlerts(portal) = {}
            /\ last.exc # NoExc)
              => last.exc.type = "BCHydroInvalidHtmlException"
        /\ (last.exc.type = "BCHydroAuthException") => ~ReadSection(last)
        /\ \A i \in 1..Len(last.suppressed) :
              ~IsBCHydroError(last.suppressed[i])

\* C4: whatever step of refresh() fails, the launch of the browser included,
\* the caller gets an error deriving from BCHydroError.
C4_OnlyTypedErrors ==
    (last.op = "refresh" /\ last.exc # NoExc) => IsBCHydroError(last.exc)

LoginRan(call) == Issued(call, "get_login")

\* C5 as stated: refresh() runs the login sequence if and only if the
\* authenticated flag is false when it starts.
C5_LoginIffFlagClear ==
    [][RanRefresh(last', latest_point)
          => (LoginRan(last') <=> ~authenticated)]_vars

\* C5, amended: refresh() starts the login sequence if and only if the
\* authenticated flag is false when it starts and the client has a browser
\* (launched before, or launched now); the refresh() after a successful
\* refresh() performs no login step, the refresh() after a failed one runs
\* the login again unless the browser cannot be launched.
C5_LoginIffFlagClearAndBrowser ==
    [][RanRefresh(last', latest_point)
          => /\ LoginRan(last')
                  <=> (~authenticated /\ (driver # NoDriver \/ last'.env.chrome))
             /\ (last.op = "refresh" /\ last.exc = NoExc) => ~LoginRan(last')
             /\ (last.op = "refresh" /\ last.exc # NoExc)
                  => (LoginRan(last')
                        <=> (driver # NoDriver \/ last'.env.chrome))]_vars

\* a refresh logged in again on the browser an earlier call had launched
C5_Witness ==
    /\ last.op = "refresh"
    /\ LoginRan(last)
    /\ ~Issued(last, "launch")
    /\ last.exc = NoExc
    /\ authenticated

\* C6: as long as the scope has not been exited the browser is launched at
\* most once, and every command of every call, retries after failures
\* included, goes to that first browser.
C6_BrowserLaunchedOnce ==
    (scope # "exited") =>
        /\ launches <= 1
        /\ driver \in {NoDriver, 1}
        /\ \A i \in 1..Len(last.trace) : last.trace[i].on = 1

\* a retry after a failure went to the browser launched earlier, and failed
C6_Witness ==
    /\ scope # "exited"
    /\ last.op = "refresh"
    /\ LoginRan(last)
    /\ ~Issued(last, "launch")
    /\ last.exc # NoExc
    /\ launches = 1

\* C7: when the scope is exited, normally or with an error, every browser
\* the client has launched is terminated, and none of them runs afterwards.
C7_ExitTerminatesBrowser ==
    [][/\ (last'.op = "__aexit__") => running' = {}
       /\ (scope = "exited")
             => \A b \in 1..launches : b \notin running => b \notin running'
      ]_vars

\* the scope was left with the error of a failed call, a browser launched
C7_Witness ==
    /\ last.op = "__aexit__"
    /\ last.arg = "BCHydroAuthException"
    /\ launches = 1
    /\ running = {}

Jan1 == [year |-> 2024, month |-> 1, day |-> 1]
Jan2 == [year |-> 2024, month |-> 1, day |-> 2]

\* what the cell texts of the tables say, read by hand: the dates in the
\* form "Mon D, YYYY" and the numbers in hundredths
IsDateText(text) == text \in {DateJan1, DateJan2}
DateOfText(text) == IF text = DateJan1 THEN Jan1 ELSE Jan2
IsNumberText(text) == text \in {Kwh1, Kwh2}
IsCostText(text) == text \in {Cost1, Cost2, CostPad}
NumberOfText(text) ==
    CASE text = Kwh1 -> 1050
      [] text = Kwh2 -> 1200
      [] text = Cost1 -> 100
      [] text \in {Cost2, CostPad} -> 120

WellFormedRow(row) ==
    /\ Len(row) >= 4
    /\ IsDateText(row[1])
    /\ IsNumberText(row[2])
    /\ IsCostText(row[3])

\* the rows after the header that are well formed, in table order
KeptRows(table) ==
    IF table.present /\ table.rows # <<>>
    THEN SelectSeq(Tail(table.rows), WellFormedRow)
    ELSE <<>>

\* C8: the parser returns one record per well-formed row after the header,
\* in table order, every other row dropped; the aggregate interval runs from
\* the first kept row's date to the last one's; and the parse fails, with
\* InvalidHtmlError, exactly when the table is absent or no row is kept.
C8_RecordsAreWellFormedRows ==
    (last.op = "_parse_consumption_data") =>
        /\ (last.exc # NoExc)
              <=> (~portal.table.present \/ KeptRows(portal.table) = <<>>)
        /\ (last.exc # NoExc)
              => last.exc.type = "BCHydroInvalidHtmlException"
        /\ (last.exc = NoExc) =>
              /\ Len(last.ret.electricity) = Len(KeptRows(portal.table))
              /\ \A k \in 1..Len(last.ret.electricity) :
                    /\ last.ret.electricity[k].consumption
                          = NumberOfText(KeptRows(portal.table)[k][2])
                    /\ last.ret.electricity[k].cost
                          = NumberOfText(KeptRows(portal.table)[k][3])
                    /\ last.ret.electricity[k].interval.start
                          = DateOfText(KeptRows(portal.table)[k][1])
                    /\ last.ret.electricity[k].interval.end
                          = DateOfText(KeptRows(portal.table)[k][1])
              /\ last.ret.interval.start
                    = DateOfText(KeptRows(portal.table)[1][1])
              /\ last.ret.interval.end
                    = DateOfText(KeptRows(portal.table)[
                                     Len(KeptRows(portal.table))][1])

\* a table of two data rows was parsed to one record: the row of three
\* cells before the well-formed row was dropped
C8_Witness ==
    /\ last.op = "_parse_consumption_data"
    /\ portal.table = Table(<<HeaderRow, Three1, Good2>>)
    /\ last.exc = NoExc
    /\ Len(last.ret.electricity) = 1

\* refresh() fetched the section holding table t, with no visible alert
Refreshed(t) ==
    /\ last.op = "refresh"
    /\ ReadSection(last)
    /\ portal.table = t
    /\ VisibleAlerts(portal) = {}

\* the snapshot of the scenario: 10.5 and 12.0 kWh, $1.00 and $1.20, Jan 1
\* to Jan 2 2024
ScenarioUsage(u) ==
    /\ u # None
    /\ Len(u.electricity) = 2
    /\ u.electricity[1].consumption = 1050
    /\ u.electricity[2].consumption = 1200
    /\ u.electricity[1].cost = 100
    /\ u.electricity[2].cost = 120
    /\ u.interval.start = Jan1
    /\ u.interval.end = Jan2

\* C9 as stated: with the two rows of exactly three cells each, refresh()
\* succeeds and caches the scenario's snapshot, after which
\* get_latest_usage() returns 12.0.
C9_ThreeCellRows ==
    /\ Refreshed(Table(<<HeaderRow, Three1, Three2>>))
          => (last.exc = NoExc /\ ScenarioUsage(usage))
    /\ (last.op = "get_latest_usage" /\ last.exc = NoExc
           /\ ScenarioUsage(usage))
          => last.ret = [float |-> 1200]

\* C9, amended: with the two rows carrying a fourth cell after date,
\* consumption and cost, refresh() succeeds and caches the scenario's
\* snapshot, after which get_latest_usage() returns 12.0.
C9_FourCellRows ==
    /\ Refreshed(Table(<<HeaderRow, Good1, Good2>>))
          => (last.exc = NoExc /\ ScenarioUsage(usage))
    /\ (last.op = "get_latest_usage" /\ last.exc = NoExc
           /\ ScenarioUsage(usage))
          => last.ret = [float |-> 1200]

\* get_latest_usage() answered 12.0 from the snapshot a refresh had cached
C9_Witness ==
    /\ last.op = "get_latest_usage"
    /\ last.trace = <<>>
    /\ ScenarioUsage(usage)
    /\ last.ret = [float |-> 1200]

\* C10: when the fetched section holds a visible error alert, the parse
\* stage fails with AlertDialogError, its message holding the visible text
\* of every such alert, whatever the table is; it does not fail with
\* InvalidHtmlError and the cache is not replaced.
C10_AlertBeforeStructure ==
    [][(/\ RanRefresh(last', latest_point)
        /\ ReadSection(last')
        /\ VisibleAlerts(portal') # {})
          => /\ last'.exc.cause = "BCHydroAlertDialogException"
             /\ last'.exc.cause # "BCHydroInvalidHtmlException"
             /\ \A i \in VisibleAlerts(portal') :
                   Contains(last'.exc.val, Strip(portal'.alerts[i].text))
             /\ usage' = usage
             /\ latest_point' = latest_point]_vars

\* the alert was reported over a well-formed table, a snapshot being cached
C10_Witness ==
    /\ last.op = "refresh"
    /\ last.exc.cause = "BCHydroAlertDialogException"
    /\ portal.table = Table(<<HeaderRow, Good1, Good2>>)
    /\ usage # None

AccessorOps == {"get_latest_usage", "get_latest_cost", "get_latest_interval"}

\* what an accessor answers from the cached point
AnswerFrom(op, point) ==
    CASE op = "get_latest_usage" -> [float |-> point.consumption]
      [] op = "get_latest_cost" -> [float |-> point.cost]
      [] op = "get_latest_interval" ->
            [start |-> point.interval.start, end |-> point.interval.end,
             billing_period_end |-> point.interval.billing_period_end]

\* the number of times cmd was issued during the call
Times(call, cmd) ==
    Cardinality({i \in 1..Len(call.trace) : call.trace[i].cmd = cmd})

\* C11: an accessor runs refresh() if and only if no latest point is cached
\* when it is called.  With a cached point it issues no command to the
\* browser, leaves cache, flag and browser as they were and answers from the
\* cached point; with none it runs refresh() exactly once (every step of the
\* login and of the fetch at most once, the object left as that one
\* refresh() leaves it) before it answers.
C11_AccessorsRefreshLazily ==
    [][(last'.op \in AccessorOps) =>
          /\ (latest_point # None) =>
                /\ last'.trace = <<>>
                /\ last'.exc = NoExc
                /\ UNCHANGED <<usage, latest_point, authenticated, driver,
                               running, launches>>
                /\ last'.ret = AnswerFrom(last'.op, latest_point)
          /\ (latest_point = None) =>
                /\ last'.trace # <<>> \/ last'.exc # NoExc
                /\ \A cmd \in {"launch", "get_login", "submit",
                                "find_viewpay", "read_section"} :
                      Times(last', cmd) <= 1
                /\ last'.trace = Refresh(Self, last'.env, portal).st.trace
                /\ last'.exc = Refresh(Self, last'.env, portal).exc
                /\ usage' = Refresh(Self, last'.env, portal).st.usage
                /\ authenticated'
                      = Refresh(Self, last'.env, portal).st.authenticated
      ]_vars

\* get_latest_cost() answered $1.20 from the cache while the session was
\* lost and the portal showed an alert: nothing was sent to the browser
C11_Witness ==
    /\ last.op = "get_latest_cost"
    /\ last.trace = <<>>
    /\ last.ret = [float |-> 120]
    /\ ~authenticated
    /\ VisibleAlerts(portal) # {}

\* what an accessor answers when there is no point to answer from
DefaultAnswer(op) ==
    IF op = "get_latest_interval"
    THEN [start |-> None, end |-> None, billing_period_end |-> None]
    ELSE [float |-> 0]

\* C12: an accessor called on a client that has no data, and gets none,
\* returns its default (0.0, or the interval with start, end and
\* billing_period_end all null); with a point cached it returns that point's
\* consumption, cost or interval fields.
C12_AccessorDefaults ==
    (last.op \in AccessorOps) =>
        /\ (latest_point = None) =>
              /\ last.exc = NoExc
              /\ last.ret = DefaultAnswer(last.op)
        /\ (latest_point # None) =>
              last.ret = AnswerFrom(last.op, latest_point)

\* C13: an update of the poller in which refresh() (or an accessor after
\* it) raises ends by raising UpdateFailed, whose message is "Error fetching
\* data: " followed by the message of the error it wraps; no other type of
\* exception leaves the update and no snapshot is returned.
C13_FailedUpdateRaisesUpdateFailed ==
    [][(last'.op = "_async_update_data") =>
          /\ last'.exc.type \in {"None", "UpdateFailed"}
          /\ (last'.exc # NoExc) => last'.ret = None
          /\ (Refresh(Self, last'.env, portal).exc # NoExc) =>
                /\ last'.exc.type = "UpdateFailed"
                /\ last'.exc.cause = Refresh(Self, last'.env, portal).exc.type
                /\ last'.exc.lits
                      = <<"Error fetching data: ">>
                          \o Refresh(Self, last'.env, portal).exc.lits
                /\ last'.exc.val = Refresh(Self, last'.env, portal).exc.val
                /\ last'.ret = None
      ]_vars

\* an update failed on an alert of the portal: UpdateFailed carries the
\* alert's text, wrapped once by refresh() and once by the poller
C13_Witness ==
    /\ last.op = "_async_update_data"
    /\ last.exc.type = "UpdateFailed"
    /\ last.exc.cause = "BCHydroAuthException"
    /\ Contains(last.exc.val, Strip(VisibleAlert.text))
    /\ last.ret = None

\* the section refresh() read parses to a snapshot
GoodSection(call) ==
    /\ ReadSection(call)
    /\ VisibleAlerts(portal) = {}
    /\ KeptRows(portal.table) # <<>>

\* C14: an update of the poller in which refresh() succeeds returns the
\* snapshot of the three metrics latest_usage, latest_cost and
\* billing_period_end, equal to the cached latest point's consumption, cost
\* and interval.billing_period_end, and does not end in an update failure.
C14_UpdateReturnsSnapshot ==
    (last.op = "_async_update_data" /\ GoodSection(last)) =>
        /\ last.exc = NoExc
        /\ last.ret =
              [latest_usage |-> [float |-> latest_point.consumption],
               latest_cost |-> [float |-> latest_point.cost],
               billing_period_end |->
                   latest_point.interval.billing_period_end]

\* C15: the setup step called with credentials performs exactly one
\* refresh(), on a client of its own that starts without a browser; it
\* creates the config entry if and only if that refresh() succeeds; when the
\* refresh() fails, whatever the exception, no entry is created, no
\* exception leaves the step and the form is shown again with the error
\* "invalid_auth".
C15_SetupStepValidatesOnce ==
    (last.op = "async_step_user" /\ last.arg = "user_input") =>
        /\ last.exc = NoExc
        /\ last.trace # <<>> => last.trace[1] = [cmd |-> "launch", on |-> 1]
        /\ last.trace = <<>> => ~last.env.chrome
        /\ \A cmd \in {"launch", "get_login", "submit", "find_viewpay",
                        "read_section"} : Times(last, cmd) <= 1
        /\ (last.ret.type = "create_entry") <=> GoodSection(last)
        /\ (last.ret.type # "create_entry") =>
              /\ last.ret = ShowForm({<<"base", "invalid_auth">>})
              /\ Len(last.suppressed) >= 1

\* the credentials passed the login but the section held no table: the
\* form is shown again
C15_Witness ==
    /\ last.op = "async_step_user"
    /\ last.arg = "user_input"
    /\ ReadSection(last)
    /\ ~portal.table.present
    /\ last.ret = ShowForm({<<"base", "invalid_auth">>})

\* C16: in every state the client reaches, through successful and failed
\* calls alike, a latest point is cached if and only if a DailyUsage is
\* cached, and then the DailyUsage's electricity list is not empty and the
\* latest point is its last element.
C16_LatestPointIsLastRecord ==
    /\ (latest_point # None) <=> (usage # None)
    /\ (usage # None) =>
          /\ usage.electricity # <<>>
          /\ latest_point = usage.electricity[Len(usage.electricity)]

\* the cached snapshot holds the one record of Jan 2, which is the latest
\* point, after a refresh() that read the section and failed
C16_Witness ==
    /\ usage # None
    /\ Len(usage.electricity) = 1
    /\ latest_point.interval.start = Jan2
    /\ last.op = "refresh"
    /\ last.exc # NoExc
    /\ ReadSection(last)

\* a is a day before b, or the same day
DateLE(a, b) ==
    \/ a.year < b.year
    \/ a.year = b.year /\ a.month < b.month
    \/ a.year = b.year /\ a.month = b.month /\ a.day <= b.day

\* C17: the aggregate interval of every cached DailyUsage has start <= end,
\* start being the earliest and end the latest of its records' dates, in
\* whatever order the table lists its rows.
C17_IntervalSpansRecords ==
    (usage # None) =>
        /\ DateLE(usage.interval.start, usage.interval.end)
        /\ \A k \in 1..Len(usage.electricity) :
              /\ DateLE(usage.interval.start,
                        usage.electricity[k].interval.start)
              /\ DateLE(usage.electricity[k].interval.end,
                        usage.interval.end)

\* C18: while a refresh() is waiting on a slow portal, another task of the
\* same event loop can take a step before the refresh() completes.
C18_SlowPortalDoesNotBlock ==
    (/\ loop.thread = "refresh"
     /\ loop.polls >= 1
     /\ loop.other < MaxOtherSteps)
        => ENABLED OtherTaskStep

\* C19: no command is ever sent to a browser that has been terminated: a
\* call made after the scope exit has quit the browser launches a new one
\* and logs in again before it fetches.
C19_NoCommandOnTerminatedBrowser ==
    (last.op \in {"refresh", "_async_update_data"} \cup AccessorOps) =>
        /\ \A i \in 1..Len(last.trace) : last.trace[i].on \in running
        /\ (scope = "exited" /\ Issued(last, "find_viewpay"))
              => driver \in running

\* the record covers one day and names no billing period end
SameDayNoBillingEnd(rec) ==
    /\ rec.interval.start = rec.interval.end
    /\ rec.interval.billing_period_end = None

\* C20: every cached record, the latest point included, has a same-day
\* interval with billing_period_end unset; get_latest_interval() reports
\* billing_period_end as null whenever it answers, and no snapshot of the
\* poller carries a date as its billing_period_end.
C20_BillingPeriodEndUnset ==
    /\ (usage # None) =>
          \A k \in 1..Len(usage.electricity) :
             SameDayNoBillingEnd(usage.electricity[k])
    /\ (latest_point # None) => SameDayNoBillingEnd(latest_point)
    /\ (last.op = "get_latest_interval" /\ last.exc = NoExc) =>
          /\ last.ret.billing_period_end = None
          /\ last.ret.start = last.ret.end
    /\ (last.op = "_async_update_data" /\ last.ret # None) =>
          last.ret.billing_period_end = None

\* get_latest_interval() answered Jan 2 2024 to Jan 2 2024, no billing
\* period end, from a snapshot of two records
C20_Witness ==
    /\ last.op = "get_latest_interval"
    /\ last.ret = [start |-> Jan2, end |-> Jan2, billing_period_end |-> None]
    /\ Len(usage.electricity) = 2

====
